---- MODULE Spec2Model ----
(***************************************************************************)
(* Model of examples/vibs1.ipynb: the 2-DOF beam notebook.                 *)
(*                                                                         *)
(* The notebook is a sequence of code cells run against one kernel         *)
(* namespace.  The namespace is the state; each code cell is one action.   *)
(*                                                                         *)
(* Arithmetic.  The notebook computes in IEEE doubles.  The model computes *)
(* the same expressions exactly, over the numbers                          *)
(*     q            a rational, kind "q":  num/den in lowest terms,        *)
(*     q*sqrt(r)    a rational multiple of an irrational square root, kind *)
(*                  "s": (num/den)*sqrt(rad), rad > 1 a squarefree integer,*)
(* and two markers:                                                        *)
(*     "nan"    what numpy yields instead of a finite number (division by  *)
(*              zero gives inf/nan, sqrt of a negative gives nan),         *)
(*     "unrep"  a finite real the model cannot carry: it is of neither     *)
(*              form above, or its numerator, denominator or radical does  *)
(*              not fit a 32-bit model integer.  Nothing is claimed about  *)
(*              such a value.                                              *)
(* Rounding error of the doubles is not modelled.                          *)
(***************************************************************************)
EXTENDS Integers, Sequences, FiniteSets, TLC

----------------------------------------------------------------------------
(* Exact numbers *)

Abs(x) == IF x < 0 THEN -x ELSE x

Sign(x) == IF x < 0 THEN -1 ELSE IF x = 0 THEN 0 ELSE 1

RECURSIVE Gcd(_, _)
Gcd(x, y) == IF y = 0 THEN x ELSE Gcd(y, x % y)

RECURSIVE IsqrtIn(_, _, _)
IsqrtIn(x, lo, hi) ==
    IF lo >= hi THEN lo
    ELSE LET mid == (lo + hi + 1) \div 2
         IN IF mid * mid <= x THEN IsqrtIn(x, mid, hi) ELSE IsqrtIn(x, lo, mid - 1)

\* floor(sqrt(x)) for a natural x
\* (46340 is the largest root whose square a 32-bit model integer holds)
Isqrt(x) == IsqrtIn(x, 0, IF x < 46340 THEN x ELSE 46340)

IsSquare(x) == Isqrt(x) * Isqrt(x) = x

\* x = root^2 * free with free squarefree, for a natural x >= 1
SquarePart(x) ==
    LET roots == {y \in 1..Isqrt(x) : x % (y * y) = 0}
        root  == CHOOSE y \in roots : \A z \in roots : z <= y
    IN [root |-> root, free |-> x \div (root * root)]

NaN == [t |-> "nan", num |-> 0, den |-> 1, rad |-> 1]

Unrep == [t |-> "unrep", num |-> 0, den |-> 1, rad |-> 1]

\* the rational x/y, y # 0, in lowest terms with a positive denominator
Q(x, y) ==
    LET g == Gcd(Abs(x), Abs(y))
    IN [t |-> "q", num |-> Sign(y) * (x \div g) , den |-> Abs(y) \div g, rad |-> 1]

Int2Q(x) == [t |-> "q", num |-> x, den |-> 1, rad |-> 1]

Zero == Int2Q(0)

One == Int2Q(1)

IsQ(x) == x.t = "q"

IsS(x) == x.t = "s"

IsNum(x) == x.t \in {"q", "s"}

\* the marker an operation on x and y yields when one of them is a marker
Marker(x, y) == IF x.t = "nan" \/ y.t = "nan" THEN NaN ELSE Unrep

\* sign of a number
Sgn(x) == Sign(x.num)

\* the rational coefficient of a number
Coef(x) == [t |-> "q", num |-> x.num, den |-> x.den, rad |-> 1]

\* the number x*sqrt(y) for a rational x and a squarefree y >= 1
Num(x, y) ==
    IF ~IsQ(x) \/ x.num = 0 \/ y = 1 THEN x
    ELSE [t |-> "s", num |-> x.num, den |-> x.den, rad |-> y]

\* the product x*y fits a model integer
Fits(x, y) == x = 0 \/ y = 0 \/ Abs(x) <= 2147483647 \div Abs(y)

\* the sum x+y fits a model integer
FitsSum(x, y) == Abs(x) <= 2147483647 - Abs(y)

\* rational product, cancelling before multiplying
MulQ(x, y) ==
    IF ~(IsQ(x) /\ IsQ(y)) THEN Marker(x, y)
    ELSE LET g1 == Gcd(Abs(x.num), y.den)
             g2 == Gcd(Abs(y.num), x.den)
             n1 == Sign(x.num) * (Abs(x.num) \div g1)
             n2 == Sign(y.num) * (Abs(y.num) \div g2)
             d1 == x.den \div g2
             d2 == y.den \div g1
         IN IF Fits(n1, n2) /\ Fits(d1, d2)
            THEN [t |-> "q", num |-> n1 * n2, den |-> d1 * d2, rad |-> 1]
            ELSE Unrep

\* 1/x for a rational x # 0
InvQ(x) ==
    IF ~IsQ(x) THEN x
    ELSE [t |-> "q", num |-> Sign(x.num) * x.den, den |-> Abs(x.num), rad |-> 1]

AddQ(x, y) ==
    IF ~(IsQ(x) /\ IsQ(y)) THEN Marker(x, y)
    ELSE LET g  == Gcd(x.den, y.den)
             d1 == x.den \div g
             d2 == y.den \div g
         IN IF Fits(x.num, d2) /\ Fits(y.num, d1) /\ Fits(d1, y.den)
               /\ FitsSum(x.num * d2, y.num * d1)
            THEN Q(x.num * d2 + y.num * d1, d1 * y.den)
            ELSE Unrep

\* x < y for rationals.  Comparing a value the model does not carry has no
\* answer: the division by zero stops the evaluation instead of inventing one.
LessQ(x, y) ==
    LET g == Gcd(x.den, y.den)
    IN IF IsQ(x) /\ IsQ(y)
       THEN x.num * (y.den \div g) < y.num * (x.den \div g)
       ELSE (1 \div 0) < 0

\* sqrt of a rational x >= 0
SqrtQ(x) ==
    LET n == SquarePart(x.num)
        m == SquarePart(x.den)
    IN IF x.num = 0 THEN Zero
       ELSE IF ~Fits(n.free, m.free) THEN Unrep
       ELSE Num(Q(n.root, m.root * m.free), n.free * m.free)

\* the square of a number, a rational
SqOf(x) == MulQ(MulQ(Coef(x), Coef(x)), Int2Q(x.rad))

Neg(x) == IF IsNum(x) THEN [x EXCEPT !.num = -x.num] ELSE x

\* sqrt(r1)*sqrt(r2) = g*sqrt((r1/g)*(r2/g)) for squarefree r1, r2, g their gcd
Mul(x, y) ==
    IF ~(IsNum(x) /\ IsNum(y)) THEN Marker(x, y)
    ELSE LET g == Gcd(x.rad, y.rad)
         IN IF ~Fits(x.rad \div g, y.rad \div g) THEN Unrep
            ELSE Num(MulQ(MulQ(Coef(x), Int2Q(g)), Coef(y)),
                     (x.rad \div g) * (y.rad \div g))

\* 1/(c*sqrt(r)) = sqrt(r)/(c*r); numpy division by zero gives inf or nan
Inv(x) ==
    IF ~IsNum(x) THEN x
    ELSE IF Sgn(x) = 0 THEN NaN
    ELSE Num(MulQ(InvQ(Coef(x)), Q(1, x.rad)), x.rad)

Div(x, y) == IF IsNum(x) /\ IsNum(y) THEN Mul(x, Inv(y)) ELSE Marker(x, y)

\* numbers with different radicals have no sum of either kind
Add(x, y) ==
    IF ~(IsNum(x) /\ IsNum(y)) THEN Marker(x, y)
    ELSE IF Sgn(x) = 0 THEN y
    ELSE IF Sgn(y) = 0 THEN x
    ELSE IF x.rad = y.rad THEN Num(AddQ(Coef(x), Coef(y)), x.rad)
    ELSE Unrep

Sub(x, y) == Add(x, Neg(y))

\* np.sqrt: nan for a negative operand
Sqrt(x) ==
    IF ~IsNum(x) THEN x
    ELSE IF Sgn(x) < 0 THEN NaN
    ELSE IF IsS(x) THEN Unrep
    ELSE SqrtQ(x)

\* x < y for numbers (both of kind "q" or "s"): by their signs and squares
Less(x, y) ==
    IF IsQ(x) /\ IsQ(y) THEN LessQ(x, y)
    ELSE IF Sgn(x) # Sgn(y) THEN Sgn(x) < Sgn(y)
    ELSE IF Sgn(x) = 0 THEN FALSE
    ELSE IF Sgn(x) > 0 THEN LessQ(SqOf(x), SqOf(y))
    ELSE LessQ(SqOf(y), SqOf(x))

Leq(x, y) == x = y \/ Less(x, y)

\* x*y/z for rationals, cancelling against z before multiplying, so that the
\* intermediate product x*y need not fit the model's integers
MulDivQ(x, y, z) == MulQ(MulQ(x, InvQ(z)), y)

\* x**3 for a rational
Pow3(x) == MulQ(MulQ(x, x), x)

----------------------------------------------------------------------------
(* Complex numbers: [re, im] of exact numbers *)

Cx(x, y) == [re |-> x, im |-> y]

\* the Python literal 1j
J == Cx(Zero, One)

\* a real operand promoted to complex
Re2C(x) == Cx(x, Zero)

CAdd(x, y) == Cx(Add(x.re, y.re), Add(x.im, y.im))

CSub(x, y) == Cx(Sub(x.re, y.re), Sub(x.im, y.im))

CMul(x, y) ==
    Cx(Sub(Mul(x.re, y.re), Mul(x.im, y.im)), Add(Mul(x.re, y.im), Mul(x.im, y.re)))

\* np.conj
Conj(x) == Cx(x.re, Neg(x.im))

\* |x|^2
CNorm2(x) == Add(Mul(x.re, x.re), Mul(x.im, x.im))

CIsNum(x) == IsNum(x.re) /\ IsNum(x.im)

\* the marker a complex operation yields when a part of an operand is one
CMarker(x, y) ==
    IF "nan" \in {x.re.t, x.im.t, y.re.t, y.im.t} THEN Cx(NaN, NaN) ELSE Cx(Unrep, Unrep)

\* numpy complex division: a zero divisor yields inf/nan, not an exception
\* (x*conj(y)/|y|^2; a real or an imaginary divisor is divided by directly,
\* which is the same quotient without the squares)
CDiv(x, y) ==
    LET n2   == CNorm2(y)
        top  == CMul(x, Conj(y))
    IN IF ~(CIsNum(x) /\ CIsNum(y)) THEN CMarker(x, y)
       ELSE IF y.im = Zero THEN Cx(Div(x.re, y.re), Div(x.im, y.re))
       ELSE IF y.re = Zero THEN Cx(Div(x.im, y.im), Neg(Div(x.re, y.im)))
       ELSE Cx(Div(top.re, n2), Div(top.im, n2))

CIsQ(x) == IsQ(x.re) /\ IsQ(x.im)

\* np.abs of a complex number
CAbs(x) == Sqrt(CNorm2(x))

----------------------------------------------------------------------------
(* Vectors and matrices: sequences, and sequences of rows *)

\* the notebook's number of degrees of freedom (np.eye(2))
NDof == 2

Dofs == 1..NDof

\* np.eye(2)
Eye == [i \in Dofs |-> [j \in Dofs |-> IF i = j THEN One ELSE Zero]]

\* x.T
Transpose(x) == [i \in Dofs |-> [j \in Dofs |-> x[j][i]]]

\* x @ y, np.dot(x, y) for 2x2 operands
MatMul(x, y) ==
    [i \in Dofs |-> [j \in Dofs |->
        Add(Mul(x[i][1], y[1][j]), Mul(x[i][2], y[2][j]))]]

\* x + y, elementwise
MatAdd(x, y) == [i \in Dofs |-> [j \in Dofs |-> Add(x[i][j], y[i][j])]]

\* scalar * matrix
MatScale(a, x) == [i \in Dofs |-> [j \in Dofs |-> Mul(a, x[i][j])]]

\* matrix * 1-d array: numpy broadcasts the array along the rows
MatTimesRow(x, r) == [i \in Dofs |-> [j \in Dofs |-> Mul(x[i][j], r[j])]]

\* x[:, j]
Col(x, j) == [i \in Dofs |-> x[i][j]]

\* np.diag of a matrix
Diag(x) == [i \in Dofs |-> x[i][i]]

\* np.outer(x, y)
Outer(x, y) == [i \in Dofs |-> [j \in Dofs |-> Mul(x[i], y[j])]]

MatIsNum(x) == \A i, j \in Dofs : IsNum(x[i][j])

----------------------------------------------------------------------------
(* scipy.linalg.eigh(K, M) for a 2x2 pencil.                               *)
(* The library routine is not part of the repository; this is its result   *)
(* computed in closed form: the eigenvalues are the roots of               *)
(* det(K - t*M) = 0 in ascending order, column j of the eigenvector matrix *)
(* spans the null space of K - d[j]*M and is scaled to unit M-norm.  The   *)
(* sign of each column is the solver's choice (sg).  eigh reads the lower  *)
(* triangles only.                                                         *)

Two == Int2Q(2)

Four == Int2Q(4)

Det(x) == Sub(Mul(x[1][1], x[2][2]), Mul(x[2][1], x[2][1]))

\* PosDef with a singular matrix let through
PosSemiDef(x) == Leq(Zero, x[1][1]) /\ Leq(Zero, Det(x))

\* Cholesky of the second operand succeeds: leading minors positive
PosDef(x) == Less(Zero, x[1][1]) /\ Less(Zero, Det(x))

\* the adjugate of a 2x2 symmetric matrix (lower triangle read) over dt
AdjugateOver(x, dt) ==
    <<<<Div(x[2][2], dt), Div(Neg(x[2][1]), dt)>>,
      <<Div(Neg(x[2][1]), dt), Div(x[1][1], dt)>>>>

\* inverse of a 2x2 symmetric matrix
MatInv(x) == AdjugateOver(x, Det(x))

\* lower triangle mirrored
Sym(x) == <<<<x[1][1], x[2][1]>>, <<x[2][1], x[2][2]>>>>

\* (c11 + c22)/2
HalfTrace(c) == Div(Add(c[1][1], c[2][2]), Two)

\* sqrt(x^2 + 4 c12 c21)/2 for x = c11 - c22
HalfRootOf(x, c) == Div(Sqrt(Add(Mul(x, x), Mul(Four, Mul(c[1][2], c[2][1])))), Two)

\* sqrt((c11 - c22)^2 + 4 c12 c21)/2
HalfRoot(c) == HalfRootOf(Sub(c[1][1], c[2][2]), c)

\* mid -+ half
AscendingPair(mid, half) == <<Sub(mid, half), Add(mid, half)>>

\* mid +- half
DescendingPair(mid, half) == <<Add(mid, half), Sub(mid, half)>>

\* the eigenvalues of a 2x2 matrix c with real eigenvalues, ascending
RootsOf(c) == AscendingPair(HalfTrace(c), HalfRoot(c))

\* RootsOf in descending order
RootsOfDescending(c) == DescendingPair(HalfTrace(c), HalfRoot(c))

\* EigVals in descending order
EigValsDescending(kk, mm) == RootsOfDescending(MatMul(MatInv(mm), Sym(kk)))

\* the two roots of det(kk - t*mm) = 0, ascending: the eigenvalues of
\* c = mm^-1 kk, (c11 + c22)/2 -+ sqrt((c11 - c22)^2 + 4 c12 c21)/2
EigVals(kk, mm) == RootsOf(MatMul(MatInv(mm), Sym(kk)))

\* kk - t*mm, lower triangle mirrored
Shifted(kk, mm, t) ==
    [i \in Dofs |-> [j \in Dofs |->
        IF i >= j THEN Sub(kk[i][j], Mul(t, mm[i][j]))
        ELSE Sub(kk[j][i], Mul(t, mm[j][i]))]]

\* a vector spanning the null space of the singular symmetric matrix r
\* (mm and first decide which when r is zero: the eigenvalue is double)
NullVecOf(r, mm, first) ==
    IF ~(r[1][1] = Zero /\ r[2][1] = Zero) THEN <<Neg(r[2][1]), r[1][1]>>
    ELSE IF r[2][2] # Zero THEN <<r[2][2], Zero>>
    ELSE IF first THEN <<One, Zero>>
    ELSE <<Neg(mm[2][1]), mm[1][1]>>

\* NullVecOf with the sign of the rotation lost
NullVecOfUnsigned(r, mm, first) == <<r[2][1], r[1][1]>>

\* NullVec with the sign of the rotation lost
NullVecUnsigned(kk, mm, t, first) == NullVecOfUnsigned(Shifted(kk, mm, t), mm, first)

\* a vector spanning the null space of kk - t*mm (first, for the lower
\* eigenvalue: which of the two when the eigenvalue is double)
NullVec(kk, mm, t, first) == NullVecOf(Shifted(kk, mm, t), mm, first)

\* u' M u
MNorm2(u, mm) ==
    Add(Add(Mul(Mul(u[1], mm[1][1]), u[1]), Mul(Mul(u[2], mm[2][2]), u[2])),
        Mul(Two, Mul(Mul(u[1], mm[2][1]), u[2])))

\* s*u/nrm
ScaleBy(u, nrm, s) == [i \in Dofs |-> Mul(Int2Q(s), Div(u[i], nrm))]

\* u scaled to unit Euclidean norm instead, as for a standard eigenproblem
UnitNormalize(u, mm, s) == ScaleBy(u, Sqrt(Add(Mul(u[1], u[1]), Mul(u[2], u[2]))), s)

\* u scaled to unit M-norm, with sign s
MNormalize(u, mm, s) == ScaleBy(u, Sqrt(MNorm2(u, mm)), s)

\* the matrix whose columns are c1 and c2
Columns(c1, c2) == [i \in Dofs |-> <<c1[i], c2[i]>>]

\* the eigenvalues vals with their eigenvectors as columns
EigPairs(kk, mm, vals, sg) ==
    [d |-> vals,
     v |-> Columns(MNormalize(NullVec(kk, mm, vals[1], TRUE), mm, sg[1]),
                   MNormalize(NullVec(kk, mm, vals[2], FALSE), mm, sg[2]))]

eigh(kk, mm, sg) == EigPairs(kk, mm, EigVals(kk, mm), sg)

----------------------------------------------------------------------------
(* FRF synthesis helpers (Transfer Function cell) *)

\* np.linspace(lo, hi, n): n evenly spaced samples, both ends included
linspace(lo, hi, n) ==
    [i \in 1..n |->
        IF n = 1 THEN lo
        ELSE Add(lo, Mul(Int2Q(i - 1), Div(Sub(hi, lo), Int2Q(n - 1))))]

\* frf_build_sdof with the conjugate of the residue forgotten
frf_no_conj(a, r, f) ==
    [i \in 1..Len(f) |->
        CAdd(CDiv(a, CSub(CMul(J, Re2C(f[i])), r)),
             CDiv(a, CSub(CMul(J, Re2C(f[i])), Conj(r))))]

\* frf_build_sdof with the conjugate of the pole forgotten
frf_no_conj_pole(a, r, f) ==
    [i \in 1..Len(f) |->
        CAdd(CDiv(a, CSub(CMul(J, Re2C(f[i])), r)),
             CDiv(Conj(a), CSub(CMul(J, Re2C(f[i])), r)))]

\* def frf_build_sdof(a, r, f): h = a/(1j*f-r) + np.conj(a)/(1j*f-np.conj(r))
frf_build_sdof(a, r, f) ==
    [i \in 1..Len(f) |->
        CAdd(CDiv(a, CSub(CMul(J, Re2C(f[i])), r)),
             CDiv(Conj(a), CSub(CMul(J, Re2C(f[i])), Conj(r))))]

\* np.log10 is not computed: the decibel value of x > 0 is carried as the
\* term 20*log10(x); log10(0) is -inf and log10 of a negative is nan
mag2db(x) ==
    IF ~IsNum(x) THEN [t |-> x.t, of |-> x]
    ELSE IF Sgn(x) > 0 THEN [t |-> "20log10", of |-> x]
    ELSE IF Sgn(x) = 0 THEN [t |-> "-inf", of |-> x]
    ELSE [t |-> "nan", of |-> x]

----------------------------------------------------------------------------
(* The kernel *)

VARIABLES
    params,     \* the literals typed into the cells (the physical parameters)
    pc,         \* number of code cells run so far, top to bottom
    err,        \* "none", or the exception that stopped the run
    defined,    \* the names bound in the kernel namespace
    out,        \* what the cell run last printed or plotted
    first,      \* the namespace a repeated execution started from, once a cell
                \* or the whole notebook is being run again
    b, h, I, E, l, grav, mbar, k1, k2, M, k, K,
    d, v, w, Mr, Kr, dampr, dampf, wn, roots,
    coords, mode,
    ns, ne, qr, A, freqs, HH, iin, iout

ctlVars == <<params, pc, err, defined, out>>

buildVars == <<b, I, E, l, grav, mbar, k1, k2, M, k, K>>

modalVars == <<d, v, w, Mr, Kr, dampr, dampf, wn, roots>>

tfVars == <<ns, ne, qr, A, freqs, HH, iin, iout>>

vars == <<ctlVars, first, buildVars, h, modalVars, coords, mode, tfVars>>

\* value of a name that is not bound yet
Unbound == <<>>

----------------------------------------------------------------------------
(* Parameters *)

\* largest frequency sweep length ns explored (the notebook types 128)
MaxNs == 3

\* largest cross-section width and height explored
MaxSize == 2

\* boundary-spring scale pairs (k1, k2 scales): the notebook's 300/300, equal
\* pairs, unequal pairs, a free-free beam, a pair with irrational modes, and
\* a pair that puts the upper mode of the smallest beam at 25 rad/sec, the
\* end of the sweep
SpringScales ==
    {<<300, 300>>, <<8, 8>>, <<3, 3>>, <<1, 1>>, <<0, 0>>, <<7, 0>>, <<0, 10>>, <<1, 0>>,
     <<1851, 1851>>}

\* damping ratios: the notebook's .05, undamped, and a heavy 3/4
DampingRatios == {Q(1, 20), Zero, Q(3, 4)}

\* the literals of the notebook as committed
ExampleBeam ==
    [b |-> One, h |-> Int2Q(12), E |-> Int2Q(29000000), lft |-> Int2Q(100),
     grav |-> Q(3864, 10), rho |-> Q(29, 100)]

\* small beams
SmallBeams ==
    {[b |-> Int2Q(x), h |-> Int2Q(y), E |-> Int2Q(z), lft |-> Q(1, 12),
      grav |-> One, rho |-> One] : x \in 1..MaxSize, y \in 1..MaxSize, z \in {2, 3}}

\* a beam of a material without weight: its mass matrix is zero
MasslessBeam ==
    [b |-> One, h |-> One, E |-> Int2Q(2), lft |-> Q(1, 12), grav |-> One, rho |-> Zero]

\* a beam of negative density: its mass matrix is negative definite
NegativeMassBeam ==
    [b |-> One, h |-> One, E |-> Int2Q(2), lft |-> Q(1, 12), grav |-> One,
     rho |-> Int2Q(-1)]

ParamSet ==
    {[beam |-> x, scale |-> y, dampr |-> z, ns |-> n] :
        x \in {ExampleBeam, MasslessBeam, NegativeMassBeam} \cup SmallBeams, y \in SpringScales,
        z \in DampingRatios, n \in 1..MaxNs}

----------------------------------------------------------------------------
(* Cells *)

Init ==
    /\ params \in ParamSet
    /\ pc = 0
    /\ first = Unbound
    /\ err = "none"
    /\ defined = {}
    /\ out = <<>>
    /\ b = Unbound /\ h = Unbound /\ I = Unbound /\ E = Unbound /\ l = Unbound
    /\ grav = Unbound /\ mbar = Unbound /\ k1 = Unbound /\ k2 = Unbound
    /\ M = Unbound /\ k = Unbound /\ K = Unbound
    /\ d = Unbound /\ v = Unbound /\ w = Unbound /\ Mr = Unbound /\ Kr = Unbound
    /\ dampr = Unbound /\ dampf = Unbound /\ wn = Unbound /\ roots = Unbound
    /\ coords = Unbound /\ mode = Unbound
    /\ ns = Unbound /\ ne = Unbound /\ qr = Unbound /\ A = Unbound
    /\ freqs = Unbound /\ HH = Unbound /\ iin = Unbound /\ iout = Unbound

\* import numpy as np ... show = lambda x,y: print(...)
SetupCell ==
    /\ pc = 0 /\ err = "none"
    /\ pc' = 1
    /\ defined' = defined \cup {"np", "la", "plt", "show"}
    /\ out' = <<>>
    /\ UNCHANGED <<first, params, err, buildVars, h, modalVars, coords, mode, tfVars>>

\* MbarOf with the first of its two assignments lost: mbar/grav of the mbar
\* already in the namespace
MbarAccumulated(x, y, rho, g) ==
    IF mbar = Unbound THEN Div(Mul(Mul(x, y), rho), g) ELSE Div(mbar, g)

\* mbar = b*h*.29 ; mbar = mbar/grav
MbarOf(x, y, rho, g) == Div(Mul(Mul(x, y), rho), g)

\* BeamStiffness with the span squared instead of cubed
BeamStiffnessSquare(e, i, len) == MulDivQ(e, i, MulQ(len, len))

\* E*I/(l**3)
BeamStiffness(e, i, len) == MulDivQ(e, i, Pow3(len))

\* BeamK with one off-diagonal sign wrong
BeamKSkew(e, i, len) ==
    MatScale(BeamStiffness(e, i, len),
             <<<<Int2Q(12), Int2Q(-12)>>, <<Int2Q(12), Int2Q(12)>>>>)

\* k = E*I/(l**3) * np.array([[12, -12 ] , [-12, 12]])
BeamK(e, i, len) ==
    MatScale(BeamStiffness(e, i, len),
             <<<<Int2Q(12), Int2Q(-12)>>, <<Int2Q(-12), Int2Q(12)>>>>)

\* the Build Beam cell
BuildBeamCell ==
    /\ pc = 1 /\ err = "none"
    /\ pc' = 2
    /\ b' = params.beam.b
    /\ h' = params.beam.h
    /\ I' = Div(Mul(b', Mul(Mul(h', h'), h')), Int2Q(12))
    /\ E' = params.beam.E
    /\ l' = Mul(params.beam.lft, Int2Q(12))
    /\ grav' = params.beam.grav
    /\ mbar' = MbarOf(b', h', params.beam.rho, grav')
    /\ k1' = Mul(BeamStiffness(E', I', l'), Int2Q(params.scale[1]))
    /\ k2' = Mul(BeamStiffness(E', I', l'), Int2Q(params.scale[2]))
    /\ M' = MatScale(Div(Mul(mbar', l'), Two), Eye)
    /\ k' = BeamK(E', I', l')
    /\ K' = MatAdd(k', MatTimesRow(Eye, <<k1', k2'>>))
    /\ defined' = defined \cup
          {"b", "h", "I", "E", "l", "grav", "mbar", "k1", "k2", "M", "k", "K"}
    /\ out' = <<<<"Mass matrix", M'>>, <<"Stiffness matrix", K'>>>>
    /\ UNCHANGED <<first, params, err, modalVars, coords, mode, tfVars>>


\* w = np.sqrt(d)
UndampedFreq(x) == [i \in Dofs |-> Sqrt(x[i])]

\* DampingFactor with the damping dropped
DampingFactorNone(z, x) == [i \in Dofs |-> Mul(Zero, x[i])]

\* DampingFactor with the sign lost
DampingFactorPlus(z, x) == [i \in Dofs |-> Mul(z, x[i])]

\* dampf = -dampr*w
DampingFactor(z, x) == [i \in Dofs |-> Mul(Neg(z), x[i])]

\* DampedFreq with the damping term subtracted
DampedFreqMinus(x, y) == [i \in Dofs |-> Sqrt(Sub(Mul(x[i], x[i]), Mul(y[i], y[i])))]

\* wn = np.sqrt(w**2 + dampf**2)
DampedFreq(x, y) == [i \in Dofs |-> Sqrt(Add(Mul(x[i], x[i]), Mul(y[i], y[i])))]

\* Poles with the real and imaginary parts exchanged
PolesSwapped(x, y) == [i \in Dofs |-> CAdd(Re2C(y[i]), CMul(J, Re2C(x[i])))]

\* roots = dampf + 1j*wn
Poles(x, y) == [i \in Dofs |-> CAdd(Re2C(x[i]), CMul(J, Re2C(y[i])))]

\* Mr = np.dot(np.dot(v.T,M), v) ; Kr = v.T@K@v
Project(x, y) == MatMul(MatMul(Transpose(x), y), x)

\* the Eigenvalue Decomposition cell; eigh raises LinAlgError when M is not
\* positive definite, and the cell stops there
EigenCell ==
    /\ pc = 2 /\ err = "none"
    /\ pc' = 3
    /\ IF PosDef(M)
       THEN \E sg \in {-1, 1} \X {-1, 1} : \E dv \in {eigh(K, M, sg)} :
              /\ d' = dv.d
              /\ v' = dv.v
              /\ w' = UndampedFreq(d')
              /\ Mr' = Project(v', M)
              /\ Kr' = Project(v', K)
              /\ dampr' = params.dampr
              /\ dampf' = DampingFactor(dampr', w')
              /\ wn' = DampedFreq(w', dampf')
              /\ roots' = Poles(dampf', wn')
              /\ defined' = defined \cup
                    {"d", "v", "w", "Mr", "Kr", "dampr", "dampf", "wn", "roots"}
              /\ out' = <<<<"Eigenvalues", d'>>, <<"Eigenvectors", v'>>,
                          <<"Decoupled Mass Matrix", Mr'>>,
                          <<"Decoupled Stiffness Matrix", Kr'>>>>
              /\ err' = err
       ELSE /\ err' = "LinAlgError"
            /\ out' = <<>>
            /\ UNCHANGED <<defined, modalVars>>
    /\ UNCHANGED <<first, params, buildVars, h, coords, mode, tfVars>>

\* the Beam Plots cell: one figure per mode, the undeformed beam and the
\* beam with the modal vector superimposed
BeamPlotsCell ==
    /\ pc = 3 /\ err = "none"
    /\ pc' = 4
    /\ coords' = <<<<Zero, l>>, <<Zero, Zero>>>>
    /\ mode' = NDof - 1
    /\ out' = [j \in Dofs |->
                 [undeformed |-> coords',
                  deformed |-> <<[i \in Dofs |-> Add(coords'[1][i], v[i][j])],
                                 [i \in Dofs |-> Add(coords'[2][i], v[i][j])]>>,
                  title |-> j]]
    /\ defined' = defined \cup {"coords", "plot_undeformed", "mode", "fig", "ax"}
    /\ UNCHANGED <<first, params, err, buildVars, h, modalVars, tfVars>>

\* qr = 1/(2j*np.diag(Mr)*wn)
ModalScaling(x, y) ==
    [i \in Dofs |->
        CDiv(Re2C(One), CMul(CMul(CMul(Re2C(Two), J), Re2C(Diag(x)[i])), Re2C(y[i])))]

\* A = [qr[mode]*np.outer(v[:,mode],v[:,mode]) for mode in np.arange(ne)]
Residues(x, y) ==
    [n \in Dofs |->
        [i \in Dofs |-> [j \in Dofs |->
            CMul(x[n], Re2C(Outer(Col(y, n), Col(y, n))[i][j]))]]]

\* the sweep ends typed in the cell: np.linspace(-25,25,ns)
SweepEnd == 25

\* the Transfer Function cell.  The loop over the modes is `pass`; HH stays
\* the zeros it was created with.
TransferFunctionCell ==
    /\ pc = 4 /\ err = "none"
    /\ pc' = 5
    /\ ns' = params.ns
    /\ ne' = NDof
    /\ qr' = ModalScaling(Mr, wn)
    /\ A' = Residues(qr', v)
    /\ freqs' = linspace(Int2Q(-SweepEnd), Int2Q(SweepEnd), ns')
    /\ HH' = [i \in Dofs |-> [j \in Dofs |-> [n \in 1..ns' |-> Zero]]]
    /\ iin' = 1
    /\ iout' = 1
    /\ mode' = 0
    /\ defined' = defined \cup
          {"ns", "ne", "qr", "A", "freqs", "HH", "frf_build_sdof", "mode",
           "iin", "iout", "mag2db"}
    /\ out' = <<>>
    /\ UNCHANGED <<first, params, err, buildVars, h, modalVars, coords>>

\* the FRF plot cell (Python indices are 0-based, the model's 1-based)
FRFPlotCell ==
    /\ pc = 5 /\ err = "none"
    /\ pc' = 6
    /\ mode' = 1
    /\ iin' = 0
    /\ iout' = 0
    /\ h' = frf_build_sdof(A[mode' + 1][iout' + 1][iin' + 1], roots[mode' + 1], freqs)
    /\ out' = <<[x |-> freqs, y |-> [i \in 1..Len(h') |-> mag2db(CAbs(h'[i]))]]>>
    /\ defined' = defined \cup {"mode", "iin", "iout", "h"}
    /\ UNCHANGED <<first, params, err, buildVars, modalVars, coords,
                   ns, ne, qr, A, freqs, HH>>

\* the names cell n (1 the Setup cell .. 6 the FRF plot cell) loads from the
\* kernel namespace before binding them itself
CellReads(n) ==
    IF n = 1 THEN {}
    ELSE IF n = 2 THEN {"np", "show"}
    ELSE IF n = 3 THEN {"la", "np", "show", "K", "M"}
    ELSE IF n = 4 THEN {"np", "plt", "l", "v"}
    ELSE IF n = 5 THEN {"np", "v", "Mr", "wn"}
    ELSE {"np", "plt", "A", "roots", "freqs", "frf_build_sdof", "mag2db"}

Next ==
    \/ SetupCell
    \/ BuildBeamCell
    \/ EigenCell
    \/ BeamPlotsCell
    \/ TransferFunctionCell
    \/ FRFPlotCell

Spec == Init /\ [][Next]_vars

----------------------------------------------------------------------------
(* The FRF synthesizer on its own: the namespace as the Transfer Function  *)
(* cell leaves it, but with the residues, the poles and the sweep drawn    *)
(* from small sets instead of computed from a beam, and the FRF plot cell  *)
(* applied to them.                                                        *)

\* longest sweep drawn
MaxSweep == 2

\* residues drawn: real, imaginary (as the notebook's are) and mixed
ResidueInputs == {Cx(One, Zero), Cx(Zero, Q(-1, 2)), Cx(One, One), Cx(Int2Q(2), Int2Q(-1))}

\* poles drawn: damped, undamped (on the imaginary axis) and unstable
PoleInputs ==
    {Cx(Int2Q(-1), Int2Q(2)), Cx(Zero, One), Cx(Q(-1, 2), One), Cx(One, Int2Q(-1))}

\* sweep frequencies drawn
FreqInputs == {Int2Q(-1), Zero, Q(1, 2), One}

Sweeps == UNION {[1..n -> FreqInputs] : n \in 1..MaxSweep}

InitFRF ==
    /\ params = Unbound
    /\ pc = 5
    /\ first = Unbound
    /\ err = "none"
    /\ out = <<>>
    /\ b = Unbound /\ h = Unbound /\ I = Unbound /\ E = Unbound /\ l = Unbound
    /\ grav = Unbound /\ mbar = Unbound /\ k1 = Unbound /\ k2 = Unbound
    /\ M = Unbound /\ k = Unbound /\ K = Unbound
    /\ d = Unbound /\ v = Unbound /\ w = Unbound /\ Mr = Unbound /\ Kr = Unbound
    /\ dampr = Unbound /\ dampf = Unbound /\ wn = Unbound
    /\ coords = Unbound /\ qr = Unbound
    /\ \E a1, a2 \in ResidueInputs :
          A = <<[i \in Dofs |-> [j \in Dofs |-> a1]], [i \in Dofs |-> [j \in Dofs |-> a2]]>>
    /\ \E r1, r2 \in PoleInputs : roots = <<r1, r2>>
    /\ freqs \in Sweeps
    /\ ns = Len(freqs)
    /\ ne = NDof
    /\ HH = [i \in Dofs |-> [j \in Dofs |-> [n \in 1..ns |-> Zero]]]
    /\ iin = 1 /\ iout = 1 /\ mode = 0
    /\ defined = {"np", "la", "plt", "show", "roots", "ns", "ne", "A", "freqs", "HH",
                  "frf_build_sdof", "mode", "iin", "iout", "mag2db"}

NextFRF == FRFPlotCell

SpecFRF == InitFRF /\ [][NextFRF]_vars

----------------------------------------------------------------------------
(* Running again.  The kernel keeps its namespace between executions: the  *)
(* user may run the cell just executed a second time, or, after a complete *)
(* run, start over at the first cell.  first records the namespace the     *)
(* repetition started from.                                                *)

\* the parameters explored with repetition: the notebook's beam, a small beam
\* and the massless one, the notebook's damping ratio and sweep of two
RerunParams ==
    {x \in ParamSet :
        /\ x.beam \in {ExampleBeam, MasslessBeam,
                       [b |-> One, h |-> Int2Q(2), E |-> Int2Q(3), lft |-> Q(1, 12),
                        grav |-> One, rho |-> One]}
        /\ x.dampr = Q(1, 20)
        /\ x.ns = 2}

\* every name of the namespace but v (whose sign the solver chooses)
Namespace ==
    <<err, defined, b, h, I, E, l, grav, mbar, k1, k2, M, k, K,
      d, w, Mr, Kr, dampr, dampf, wn, roots, coords, mode,
      ns, ne, qr, A, freqs, HH, iin, iout>>

InitRerun ==
    /\ Init
    /\ params \in RerunParams

\* no repetition is under way
Settled == IF first = Unbound THEN TRUE ELSE pc >= first[1]

\* the cell executed last is selected and run once more (a new execution
\* starts without a pending exception)
RunAgain ==
    /\ pc \in 1..6 /\ Settled
    /\ first' = <<pc, Namespace, v>>
    /\ pc' = pc - 1
    /\ err' = "none"
    /\ UNCHANGED <<params, defined, out, buildVars, h, modalVars, coords, mode, tfVars>>

\* after a completed run the whole notebook is run again from the top
Restart ==
    /\ pc = 6 /\ err = "none" /\ Settled
    /\ first' = <<pc, Namespace, v>>
    /\ pc' = 0
    /\ UNCHANGED <<params, err, defined, out, buildVars, h, modalVars, coords, mode, tfVars>>

NextRerun ==
    \/ Next
    \/ RunAgain
    \/ Restart

SpecRerun == InitRerun /\ [][NextRerun]_vars

----------------------------------------------------------------------------
(* mag2db on its own: the namespace as the Transfer Function cell leaves   *)
(* it (mag2db is bound), and one call of mag2db on an array of reals drawn *)
(* from a small set.  params holds the argument, out the returned array.   *)

\* longest array passed to mag2db
MaxDbLen == 2

\* array elements drawn: negative, zero and positive magnitudes
DbInputs == {Int2Q(-10), Int2Q(-1), Q(-1, 2), Zero, Q(1, 2), One, Int2Q(2), Int2Q(10)}

DbArrays == UNION {[1..n -> DbInputs] : n \in 1..MaxDbLen}

InitDb ==
    /\ params \in {[x |-> a] : a \in DbArrays}
    /\ pc = 5
    /\ first = Unbound
    /\ err = "none"
    /\ out = <<>>
    /\ defined = {"np", "la", "plt", "show", "mag2db"}
    /\ b = Unbound /\ h = Unbound /\ I = Unbound /\ E = Unbound /\ l = Unbound
    /\ grav = Unbound /\ mbar = Unbound /\ k1 = Unbound /\ k2 = Unbound
    /\ M = Unbound /\ k = Unbound /\ K = Unbound
    /\ d = Unbound /\ v = Unbound /\ w = Unbound /\ Mr = Unbound /\ Kr = Unbound
    /\ dampr = Unbound /\ dampf = Unbound /\ wn = Unbound /\ roots = Unbound
    /\ coords = Unbound /\ mode = Unbound
    /\ ns = Unbound /\ ne = Unbound /\ qr = Unbound /\ A = Unbound
    /\ freqs = Unbound /\ HH = Unbound /\ iin = Unbound /\ iout = Unbound

\* mag2db(x) for an array x: 20*np.log10(x) works elementwise and binds
\* nothing
Mag2dbCall ==
    /\ "mag2db" \in defined /\ err = "none" /\ out = <<>>
    /\ out' = <<[x |-> params.x, y |-> [i \in 1..Len(params.x) |-> mag2db(params.x[i])]]>>
    /\ UNCHANGED <<first, params, pc, err, defined, buildVars, h, modalVars, coords, mode, tfVars>>

NextDb == Mag2dbCall

SpecDb == InitDb /\ [][NextDb]_vars

----------------------------------------------------------------------------
(* Properties *)

\* the operands of the call in the FRF plot cell
CallResidue == A[mode + 1][iout + 1][iin + 1]

CallPole == roots[mode + 1]

\* 1j*f - r
Denominator(f, r) == CSub(CMul(J, Re2C(f)), r)

CZero == Cx(Zero, Zero)

CNaN == Cx(NaN, NaN)

\* C1: after the FRF plot cell, h has one value per element of freqs, and its
\* k-th value is a/(i*f_k - r) + conj(a)/(i*f_k - conj(r)): multiplied through
\* by both denominators, h_k*(i*f_k - r)*(i*f_k - conj(r)) equals
\* a*(i*f_k - conj(r)) + conj(a)*(i*f_k - r); where a denominator is zero the
\* quotient is numpy's non-finite value.
C1_FrfValue ==
    pc = 6 =>
        /\ Len(h) = Len(freqs)
        /\ \A n \in 1..Len(freqs) :
              LET z1 == Denominator(freqs[n], CallPole)
                  z2 == Denominator(freqs[n], Conj(CallPole))
              IN IF z1 = CZero \/ z2 = CZero
                 THEN h[n] = CNaN
                 ELSE /\ CIsNum(h[n])
                      /\ CMul(CMul(h[n], z1), z2)
                           = CAdd(CMul(CallResidue, z2), CMul(Conj(CallResidue), z1))

\* C1 witness: a sweep of two or more frequencies evaluated to finite values
\* with nonzero real and imaginary parts
C1_Witness ==
    /\ pc = 6
    /\ Len(h) >= 2
    /\ \A n \in 1..Len(h) : CIsNum(h[n]) /\ h[n].re # Zero /\ h[n].im # Zero

\* C3: conjugate symmetry.  Whenever the sweep holds a frequency and its
\* negative, the FRF value at -f is the complex conjugate of the (finite) value
\* at f.
C3_ConjugateSymmetry ==
    pc = 6 =>
        \A n, j \in 1..Len(freqs) :
            (freqs[j] = Neg(freqs[n]) /\ CIsNum(h[n])) => h[j] = Conj(h[n])

\* C3 witness: a sweep holding f # 0 and -f, with a value at f that is not real
C3_Witness ==
    /\ pc = 6
    /\ \E n, j \in 1..Len(freqs) :
          /\ freqs[n] # Zero
          /\ freqs[j] = Neg(freqs[n])
          /\ CIsNum(h[n])
          /\ h[n].im # Zero

\* the elementwise sum over the modes of the single-mode FRFs of one DOF pair
SumOfModes(io, ii) ==
    [n \in 1..Len(freqs) |->
        CAdd(frf_build_sdof(A[1][io][ii], roots[1], freqs)[n],
             frf_build_sdof(A[2][io][ii], roots[2], freqs)[n])]

\* C2: superposition.  Once the Transfer Function cell has run, the multi-mode
\* FRF array HH holds, for every DOF pair and every sweep frequency, the sum
\* over the modes of the single-mode FRFs (wherever that sum is a value the
\* model carries).
C2_Superposition ==
    (pc >= 5 /\ err = "none") =>
        \A io, ii \in Dofs : \A n \in 1..Len(freqs) :
            CIsNum(SumOfModes(io, ii)[n]) => Re2C(HH[io][ii][n]) = SumOfModes(io, ii)[n]

\* the eigen-decomposition has run and its results are values the model carries
Solved == pc >= 3 /\ err = "none" /\ MatIsNum(v) /\ \A i \in Dofs : IsNum(d[i])

\* x @ column vector
MatVec(x, u) == [i \in Dofs |-> Add(Mul(x[i][1], u[1]), Mul(x[i][2], u[2]))]

\* diag(d)
DiagMat(x) == [i \in Dofs |-> [j \in Dofs |-> IF i = j THEN x[i] ELSE Zero]]

\* C4: mass normalization.  The modal mass matrix Mr = v'Mv is the identity.
C4_MassNormalized == Solved => Mr = Eye

\* C4 witness: the notebook's beam solved, with a mass matrix that is not the
\* identity
C4_Witness == Solved /\ params.beam = ExampleBeam /\ M # Eye

\* C5: eigen-equation.  For every mode j, K v[:,j] = d[j] M v[:,j].
C5_EigenEquation ==
    Solved =>
        \A j \in Dofs :
            MatVec(K, Col(v, j)) = MatVec(MatScale(d[j], M), Col(v, j))

\* C5 witness: a solved beam with unequal boundary springs and two distinct
\* nonzero eigenvalues
C5_Witness ==
    /\ Solved
    /\ params.scale[1] # params.scale[2]
    /\ d[1] # d[2] /\ d[1] # Zero

\* v diag(d) v'
Reconstruct(x, y) == MatMul(MatMul(x, DiagMat(y)), Transpose(x))

\* C6 as stated: v diag(d) v' equals M^-1 K.
C6_RoundTripAsStated ==
    Solved => Reconstruct(v, d) = MatMul(MatInv(M), K)

\* C6 as amended: v diag(d) v' equals M^-1 K M^-1 (v being mass-normalized,
\* v^-1 is v'M, so K = M v diag(d) v' M).
C6_RoundTrip ==
    Solved => Reconstruct(v, d) = MatMul(MatMul(MatInv(M), K), MatInv(M))

\* C6 witness: the notebook's beam solved; its mass matrix is not the identity
C6_Witness ==
    /\ Solved
    /\ params.beam = ExampleBeam /\ params.scale = <<300, 300>>
    /\ M # Eye
    /\ MatIsNum(Reconstruct(v, d))

\* C7: eigenvalue ordering.  d is ascending, and column j of v is annihilated
\* by K - d[j] M (it is the eigenvector of d[j]) and is not the zero vector.
C7_Ascending ==
    Solved =>
        /\ Leq(d[1], d[2])
        /\ \A j \in Dofs :
              /\ MatVec(MatAdd(K, MatScale(Neg(d[j]), M)), Col(v, j)) = <<Zero, Zero>>
              /\ Col(v, j) # <<Zero, Zero>>

\* C7 witness: a solved beam whose two eigenvalues differ
C7_Witness == Solved /\ Less(d[1], d[2])

\* |x - c| < tol
Within(x, c, tol) == Less(Sub(c, tol), x) /\ Less(x, Add(c, tol))

\* the notebook's literals, both boundary springs at scale 300
IsExample == params.beam = ExampleBeam /\ params.scale = <<300, 300>>

\* C8: for the notebook's parameters the Build Beam cell yields a diagonal M
\* with equal diagonal entries within 1e-2 of 5.404 and K within 1e-2 of
\* [[754,-29],[-29,754]]; the beam stiffness term is 12*E*I/l^3 = 29 with
\* I = b*h^3/12 = 144.
C8_ExampleMatrices ==
    (pc >= 2 /\ IsExample) =>
        /\ M[1][2] = Zero /\ M[2][1] = Zero
        /\ M[1][1] = M[2][2]
        /\ Within(M[1][1], Q(5404, 1000), Q(1, 100))
        /\ Within(K[1][1], Int2Q(754), Q(1, 100))
        /\ Within(K[2][2], Int2Q(754), Q(1, 100))
        /\ Within(K[1][2], Int2Q(-29), Q(1, 100))
        /\ Within(K[2][1], Int2Q(-29), Q(1, 100))
        /\ I = Int2Q(144)
        /\ k[1][1] = Int2Q(29)
        /\ MulQ(k[1][1], Pow3(l)) = MulQ(MulQ(Int2Q(12), I), E)

\* C8 witness: the Build Beam cell has run on the notebook's parameters
C8_Witness == pc = 2 /\ IsExample /\ "K" \in defined

\* C9: for eigenvalues d = [134.1667, 144.9] (to the four decimals given) and
\* damping ratio 0.05: w is within 1e-3 of [11.583, 12.038], dampf within 1e-3
\* of [-0.5791, -0.6019] and wn within 1e-3 of [11.598, 12.053].
C9_ExampleFrequencies ==
    (/\ Solved
     /\ dampr = Q(5, 100)
     /\ Within(d[1], Q(1341667, 10000), Q(1, 10000))
     /\ Within(d[2], Q(1449, 10), Q(1, 10000)))
    =>
        /\ Within(w[1], Q(11583, 1000), Q(1, 1000))
        /\ Within(w[2], Q(12038, 1000), Q(1, 1000))
        /\ Within(dampf[1], Q(-5791, 10000), Q(1, 1000))
        /\ Within(dampf[2], Q(-6019, 10000), Q(1, 1000))
        /\ Within(wn[1], Q(11598, 1000), Q(1, 1000))
        /\ Within(wn[2], Q(12053, 1000), Q(1, 1000))

\* C9 witness: a solved state with those eigenvalues and that damping ratio
C9_Witness ==
    /\ Solved
    /\ dampr = Q(5, 100)
    /\ Within(d[1], Q(1341667, 10000), Q(1, 10000))
    /\ Within(d[2], Q(1449, 10), Q(1, 10000))

\* C10: damping boundary.  With damping ratio 0, every mode has dampf = 0,
\* wn = w, and a pole with zero real part.
C10_Undamped ==
    (Solved /\ dampr = Zero) =>
        \A i \in Dofs :
            IsNum(w[i]) =>
                /\ dampf[i] = Zero
                /\ wn[i] = w[i]
                /\ roots[i].re = Zero
                /\ roots[i].im = w[i]

\* C10 witness: an undamped solve with a positive irrational frequency
C10_Witness ==
    /\ Solved /\ dampr = Zero
    /\ IsS(w[2]) /\ Less(Zero, w[1])

\* mode i has a positive undamped frequency and a pole the model carries
PositiveMode(i) == IsNum(w[i]) /\ Less(Zero, w[i]) /\ CIsNum(roots[i])

\* C11: for a positive damping ratio, every mode with positive undamped
\* frequency w has dampf = -ratio*w, wn^2 = w^2 + dampf^2 with wn >= 0, and a
\* pole dampf + i*wn with strictly negative real part and strictly positive
\* imaginary part.
C11_LeftHalfPlane ==
    (Solved /\ Less(Zero, dampr)) =>
        \A i \in Dofs :
            PositiveMode(i) =>
                /\ dampf[i] = Mul(Neg(dampr), w[i])
                /\ SqOf(wn[i]) = Add(SqOf(w[i]), SqOf(dampf[i]))
                /\ roots[i] = Cx(dampf[i], wn[i])
                /\ Less(roots[i].re, Zero)
                /\ Less(Zero, roots[i].im)

\* C11 witness: the notebook's damping ratio on a beam with two positive
\* frequencies, one of them irrational
C11_Witness ==
    /\ Solved /\ dampr = Q(1, 20)
    /\ \A i \in Dofs : PositiveMode(i)
    /\ \E i \in Dofs : IsS(w[i])

\* |x| for a real
AbsNum(x) == IF Sgn(x) < 0 THEN Neg(x) ELSE x

\* C12: mag2db is elementwise and leaves the namespace alone; for every nonzero
\* element x, whatever its sign, it returns 20*log10(|x|), and for x = 0 it
\* returns negative infinity.
C12_Mag2db ==
    out # <<>> =>
        /\ Len(out[1].y) = Len(params.x)
        /\ \A i \in 1..Len(params.x) :
              IF params.x[i] = Zero
              THEN out[1].y[i].t = "-inf"
              ELSE out[1].y[i] = [t |-> "20log10", of |-> AbsNum(params.x[i])]

\* the eigen cell has been started on a mass matrix that is not positive
\* definite (a symmetric 2x2 matrix is positive definite exactly when its
\* trace and its determinant are positive)
SolveOfIndefiniteMass ==
    /\ pc >= 3
    /\ ~(/\ Less(Zero, Add(M[1][1], M[2][2]))
         /\ Less(Zero, Sub(Mul(M[1][1], M[2][2]), Mul(M[2][1], M[2][1]))))

\* C13 as stated: on a mass matrix that is not positive definite the modal
\* solve signals a SingularMassMatrixError.
C13_SingularMassMatrixError ==
    SolveOfIndefiniteMass => err = "SingularMassMatrixError"

\* C13 as amended: on a mass matrix that is not positive definite the modal
\* solve raises LinAlgError; no eigenvalues or eigenvectors are returned (d, v
\* and the names derived from them stay unbound) and the run stops in that cell.
C13_LinAlgError ==
    SolveOfIndefiniteMass =>
        /\ err = "LinAlgError"
        /\ d = Unbound /\ v = Unbound /\ w = Unbound /\ roots = Unbound
        /\ defined \cap {"d", "v", "w", "Mr", "Kr", "dampf", "wn", "roots"} = {}
        /\ pc = 3

\* C13 witness: the eigen cell has failed on a singular (zero) mass matrix
C13_Witness ==
    /\ SolveOfIndefiniteMass
    /\ M = [i \in Dofs |-> [j \in Dofs |-> Zero]]
    /\ err # "none"

\* x and y are both unbound, or the same matrix up to the sign of each column
SameUpToSign(x, y) ==
    \/ x = y
    \/ /\ x # Unbound /\ y # Unbound
       /\ \A j \in Dofs :
             \/ Col(x, j) = Col(y, j)
             \/ Col(x, j) = [i \in Dofs |-> Neg(Col(y, j)[i])]

\* C14: idempotent re-execution.  Once a repetition (of the cell run last, or
\* of the whole notebook after a completed run) has come back to the cell it
\* started from, every name holds the value it held before the repetition, v
\* up to the sign of its columns.
C14_Idempotent ==
    (first # Unbound /\ pc = first[1]) =>
        /\ Namespace = first[2]
        /\ SameUpToSign(v, first[3])

\* C14 witness: the whole notebook has been run a second time after a
\* completed run, and the solver chose another sign the second time
C14_Witness ==
    /\ first # Unbound /\ pc = 6 /\ first[1] = 6
    /\ err = "none"
    /\ v # first[3]
    /\ h # Unbound /\ h = first[2][4]

\* the literals are physical: b, h, E, l, grav and the density positive, the
\* boundary-spring scales non-negative
PhysicalParams ==
    /\ \A x \in {params.beam.b, params.beam.h, params.beam.E, params.beam.lft,
                  params.beam.grav, params.beam.rho} : Less(Zero, x)
    /\ params.scale[1] >= 0 /\ params.scale[2] >= 0

\* det(x) >= 0 for a symmetric 2x2 matrix x of rationals: x11*x22 >= x21^2,
\* decided on the quotients |x11|/|x21| >= |x21|/|x22| so that no product has
\* to fit the model's integers
DetNonNegative(x) ==
    IF x[2][1] = Zero THEN Sgn(x[1][1]) * Sgn(x[2][2]) >= 0
    ELSE /\ Sgn(x[1][1]) * Sgn(x[2][2]) > 0
         /\ Leq(Div(AbsNum(x[2][1]), AbsNum(x[2][2])),
                Div(AbsNum(x[1][1]), AbsNum(x[2][1])))

\* C15: for physical literals the Build Beam cell yields a symmetric diagonal
\* M with positive diagonal entries and a symmetric K with non-negative trace
\* and determinant; the eigen cell then succeeds and every eigenvalue is a
\* real number >= 0.
C15_MatrixInvariants ==
    (pc >= 2 /\ PhysicalParams) =>
        /\ M = Transpose(M)
        /\ M[1][2] = Zero
        /\ \A i \in Dofs : Less(Zero, M[i][i])
        /\ K = Transpose(K)
        /\ Leq(Zero, Add(K[1][1], K[2][2]))
        /\ DetNonNegative(K)
        /\ pc >= 3 =>
              /\ err = "none"
              /\ \A i \in Dofs :
                    /\ d[i].t # "nan"
                    /\ IsNum(d[i]) => Leq(Zero, d[i])

\* C15 witness: a solved free-free beam (no boundary springs): K is singular
\* and the lower eigenvalue is zero, the upper one positive
C15_Witness ==
    /\ Solved /\ PhysicalParams
    /\ params.scale = <<0, 0>>
    /\ d[1] = Zero /\ Less(Zero, d[2])

\* name n, when bound, keeps its value in the step
Kept(n, x, y) == n \in defined => y = x

\* C16: single assignment.  In a top-to-bottom run no step changes the value
\* of a name that is already bound: the physical parameters, M, K, d, v, Mr,
\* Kr, dampf, wn, roots, A and the selection variables mode, iin, iout are
\* assigned once and never rebound.
C16_SingleAssignment ==
    [][/\ Kept("b", b, b') /\ Kept("h", h, h') /\ Kept("I", I, I')
       /\ Kept("E", E, E') /\ Kept("l", l, l') /\ Kept("grav", grav, grav')
       /\ Kept("mbar", mbar, mbar') /\ Kept("k1", k1, k1') /\ Kept("k2", k2, k2')
       /\ Kept("M", M, M') /\ Kept("k", k, k') /\ Kept("K", K, K')
       /\ Kept("d", d, d') /\ Kept("v", v, v') /\ Kept("w", w, w')
       /\ Kept("Mr", Mr, Mr') /\ Kept("Kr", Kr, Kr') /\ Kept("dampr", dampr, dampr')
       /\ Kept("dampf", dampf, dampf') /\ Kept("wn", wn, wn')
       /\ Kept("roots", roots, roots') /\ Kept("coords", coords, coords')
       /\ Kept("ns", ns, ns') /\ Kept("ne", ne, ne') /\ Kept("qr", qr, qr')
       /\ Kept("A", A, A') /\ Kept("freqs", freqs, freqs') /\ Kept("HH", HH, HH')
       /\ Kept("mode", mode, mode') /\ Kept("iin", iin, iin')
       /\ Kept("iout", iout, iout')]_vars

\* the step runs a cell, and every name the cell loads is bound when it starts
ReadsAreBound == pc' # pc => CellReads(pc') \subseteq defined

\* the step leaves alone what the ModelBuilder (the Build Beam cell) reads and
\* writes
BuilderKept ==
    /\ Kept("b", b, b') /\ Kept("h", h, h') /\ Kept("I", I, I')
    /\ Kept("E", E, E') /\ Kept("l", l, l') /\ Kept("grav", grav, grav')
    /\ Kept("mbar", mbar, mbar') /\ Kept("k1", k1, k1') /\ Kept("k2", k2, k2')
    /\ Kept("M", M, M') /\ Kept("k", k, k') /\ Kept("K", K, K')

\* the step leaves alone what the ModalSolver (the eigen cell) reads and writes
SolverKept ==
    /\ Kept("K", K, K') /\ Kept("M", M, M')
    /\ Kept("d", d, d') /\ Kept("v", v, v') /\ Kept("w", w, w')
    /\ Kept("Mr", Mr, Mr') /\ Kept("Kr", Kr, Kr') /\ Kept("dampr", dampr, dampr')
    /\ Kept("dampf", dampf, dampf') /\ Kept("wn", wn, wn')
    /\ Kept("roots", roots, roots')

\* the step leaves alone the names the ModeShapePlotter (the Beam Plots cell)
\* binds for itself
PlotterKept == Kept("coords", coords, coords') /\ Kept("mode", mode, mode')

\* C17: forward data flow in a top-to-bottom run.  Every name a cell loads is
\* bound by then; the ModalSolver does not write what the ModelBuilder uses,
\* the ModeShapePlotter and the FRFSynthesizer (the Transfer Function and FRF
\* plot cells) write neither what the ModelBuilder nor what the ModalSolver
\* uses, and the FRFSynthesizer does not write the plotter's own names.
C17_ForwardFlow ==
    [][/\ ReadsAreBound
       /\ pc' = 3 => BuilderKept
       /\ pc' \in {4, 5, 6} => BuilderKept /\ SolverKept
       /\ pc' \in {5, 6} => PlotterKept]_vars

\* 1j*f for a sweep frequency f
JTimes(f) == CMul(J, Re2C(f))

\* a denominator of the single-mode FRF of mode i vanishes at sweep sample n
ZeroDenominator(i, n) ==
    \/ Denominator(freqs[n], roots[i]) = CZero
    \/ Denominator(freqs[n], Conj(roots[i])) = CZero

\* 1j*f coincides with the pole of mode i or with its conjugate, on the
\* imaginary axis
OnThePole(i, n) ==
    /\ roots[i].re = Zero
    /\ JTimes(freqs[n]) = roots[i] \/ JTimes(freqs[n]) = Conj(roots[i])

\* the sweep and the poles are bound, and the pole of mode i is carried
Swept(i) == pc >= 5 /\ err = "none" /\ CIsNum(roots[i]) /\ IsNum(w[i])

\* C18 as stated: with a positive damping ratio and a positive frequency no
\* denominator vanishes; a denominator vanishes only when the damping ratio
\* is 0, the pole has zero real part and 1j*f coincides with the pole or its
\* conjugate.
C18_ZeroOnlyUndamped ==
    \A i \in Dofs :
        Swept(i) =>
            \A n \in 1..Len(freqs) :
                /\ (Less(Zero, dampr) /\ Less(Zero, w[i])) => ~ZeroDenominator(i, n)
                /\ ZeroDenominator(i, n) => (dampr = Zero /\ OnThePole(i, n))

\* C18 as amended: with a positive damping ratio and a positive frequency no
\* denominator vanishes; a denominator vanishes only when the pole has zero
\* real part (the damping ratio is 0, or the frequency of the mode is 0) and
\* 1j*f coincides with the pole or its conjugate.
C18_Denominators ==
    \A i \in Dofs :
        Swept(i) =>
            \A n \in 1..Len(freqs) :
                /\ (Less(Zero, dampr) /\ Less(Zero, w[i])) => ~ZeroDenominator(i, n)
                /\ ZeroDenominator(i, n) =>
                      ((dampr = Zero \/ w[i] = Zero) /\ OnThePole(i, n))

\* C18 witness: a damped beam whose upper mode is at 25 rad/sec undamped, swept
\* to 25 rad/sec: no denominator of either mode vanishes
C18_Witness ==
    /\ pc >= 5 /\ err = "none"
    /\ Less(Zero, dampr)
    /\ w[2] = Int2Q(SweepEnd) /\ IsNum(w[1]) /\ Less(Zero, w[1])
    /\ Len(freqs) >= 2
    /\ \A i \in Dofs : Swept(i) /\ \A n \in 1..Len(freqs) : ~ZeroDenominator(i, n)
====
